---- MODULE Spec2Model ----
(***************************************************************************)
(* A model of corefoundry's ToolRegistry (src/corefoundry/core.py), of the *)
(* provider adapters (src/agent_adapters) and of the import machinery      *)
(* autodiscover drives.                                                    *)
(*                                                                         *)
(* Encoding of Python values.                                              *)
(*   - An Optional[...] slot holds None == <<>> or Some(v) == <<v>>.       *)
(*   - A dict with string keys is a function whose DOMAIN is its key set;  *)
(*     {} is the function with the empty domain (which is <<>> too).       *)
(*   - A list is a sequence.  The registry's dict keeps insertion order    *)
(*     and unique keys, so it is a sequence of ToolDefinition records      *)
(*     with pairwise different names.                                      *)
(*   - A formatted string (f-string) is the sequence of its pieces, each   *)
(*     {..} placeholder rendered by Str.                                   *)
(***************************************************************************)
EXTENDS Integers, Sequences, FiniteSets, TLC

VARIABLES _tools, sys_modules, client_calls, last, reads, decorators

vars == <<_tools, sys_modules, client_calls, last, reads, decorators>>

\* ---------------------------------------------------------------- bounds
MaxTools == 2
MaxCalls == 2

\* ------------------------------------------------------- Python encoding
None == <<>>
Some(v) == <<v>>
EmptyDict == <<>>

\* truth value of an Optional[str]: None and "" are falsy
Truthy(o) == o # None /\ o[1] # ""

Range(s) == {s[i] : i \in DOMAIN s}

\* ------------------------------------------------------------- callables
\* fname is __name__, doc is __doc__, body tells what a call computes
multiply == [fname |-> "multiply", doc |-> None, body |-> "mul"]
documented == [fname |-> "documented", doc |-> Some("A documented tool."), body |-> "fst"]
first == [fname |-> "first", doc |-> None, body |-> "add"]
\* def blank(x): """""" -- a function whose documentation string is empty
blank == [fname |-> "blank", doc |-> Some(""), body |-> "fst"]

Invoke(func, a, b) ==
    CASE func.body = "mul" -> a * b
      [] func.body = "add" -> a + b
      [] OTHER -> a

\* ------------------------------------------------- input_schema arguments
\* test_regressions.py:49-55
SchemaTestDump ==
    [properties |-> [x |-> [type |-> "string", description |-> Some("a value")],
                     tags |-> [type |-> "array", items |-> [type |-> "string"]]],
     required |-> <<"x">>]
\* test_tool_registry.py:84-88, an array property without items
SchemaBad == [properties |-> [tags |-> [type |-> "array"]]]
\* test_integration.py:92-98
SchemaFormat ==
    [properties |-> [data |-> [type |-> "object",
                               properties |-> [key |-> [type |-> "string"]]],
                     style |-> [type |-> "string", enum |-> <<"json", "text">>]],
     required |-> <<"data", "style">>]
\* test_regressions.py:77-79
SchemaMinimal == [properties |-> [x |-> [type |-> "string"]]]
\* a property without the mandatory type
SchemaNoType == [properties |-> [x |-> [description |-> Some("a value")]]]
\* a schema that names its own type
SchemaTyped == [type |-> "array"]

\* ------------------------------------------------------------ the models
\* class ToolProperty: type is required, description defaults to None,
\* every other key of the description is ignored (pydantic's default)
ValidToolProperty(raw) == "type" \in DOMAIN raw

ToolProperty(raw) ==
    [type |-> raw.type,
     description |-> IF "description" \in DOMAIN raw THEN raw.description ELSE None]

RawProperties(raw) == IF "properties" \in DOMAIN raw THEN raw.properties ELSE EmptyDict

\* InputSchema(**raw) raises ValidationError exactly when this is false
ValidInputSchema(raw) ==
    \A n \in DOMAIN RawProperties(raw) : ValidToolProperty(RawProperties(raw)[n])

InputSchema(raw) ==
    [type |-> IF "type" \in DOMAIN raw THEN raw.type ELSE "object",
     properties |-> [n \in DOMAIN RawProperties(raw) |-> ToolProperty(RawProperties(raw)[n])],
     required |-> IF "required" \in DOMAIN raw THEN raw.required ELSE <<>>]

ToolDefinition(name, description, input_schema, callable) ==
    [name |-> name, description |-> description,
     input_schema |-> input_schema, callable |-> callable]

\* ToolProperty.dict() without exclude_none: every field, None included
PropertyDict_with_none(p) == [k \in {"type", "description"} |-> p[k]]

\* ToolProperty.dict(exclude_none=True): the fields whose value is not None
PropertyDict(p) ==
    [k \in {f \in {"type", "description"} : f = "type" \/ p[f] # None} |-> p[k]]

\* InputSchema.dict(exclude_none=True), recursive over the properties
SchemaDict(s) ==
    [type |-> s.type,
     properties |-> [n \in DOMAIN s.properties |-> PropertyDict(s.properties[n])],
     required |-> s.required]

\* ------------------------------------------------------------- registry
Registries == {"registry", "fresh"}

\* str() of the value of tool in get_callable's message: None renders as
\* "None", a definition as its repr
Str(tool) == IF tool = None THEN "None" ELSE "ToolDefinition(...)"

Contains(msg, s) == \E i \in DOMAIN msg : msg[i] = s

\* a list_names that lists the newest name first
list_names_reversed(r) ==
    [i \in DOMAIN _tools[r] |-> _tools[r][Len(_tools[r]) + 1 - i].name]

\* list(self._tools.keys()); register stores every definition under its name
list_names(r) == [i \in DOMAIN _tools[r] |-> _tools[r][i].name]

get_all(r) == _tools[r]

get_json(r) ==
    [i \in DOMAIN _tools[r] |->
        [name |-> _tools[r][i].name,
         description |-> _tools[r][i].description,
         input_schema |-> SchemaDict(_tools[r][i].input_schema)]]

\* name in tools
HasName(tools, name) == \E i \in DOMAIN tools : tools[i].name = name

\* the first definition of the mapping whatever the name asked for
Lookup_first(r, name) ==
    IF HasName(_tools[r], name) THEN Some(_tools[r][1]) ELSE None

\* self._tools.get(name): Some(definition) or None
Lookup(r, name) ==
    IF HasName(_tools[r], name)
    THEN Some(_tools[r][CHOOSE i \in DOMAIN _tools[r] : _tools[r][i].name = name])
    ELSE None

Outcome(op, args, exc, msg, ret) ==
    [op |-> op, args |-> args, exc |-> exc, msg |-> msg, ret |-> ret]

Read(op, r, ret) == [op |-> op, reg |-> r, ret |-> ret]

\* the text pydantic puts in a ValidationError
ValidationErrorText == "validation error for InputSchema"

\* a tool name that is always the callable's identifier
tool_name_func(name, func) == func.fname

\* tool_name = name or func.__name__
tool_name(name, func) == IF Truthy(name) THEN name[1] ELSE func.fname

\* a description that skips the documentation string
tool_description_no_doc(description, func) ==
    IF Truthy(description) THEN description[1]
    ELSE "No description provided"

\* description or func.__doc__ or "No description provided"
tool_description(description, func) ==
    IF Truthy(description) THEN description[1]
    ELSE IF Truthy(func.doc) THEN func.doc[1]
    ELSE "No description provided"

\* input_schema or {}
raw_schema(input_schema) == IF input_schema = None THEN EmptyDict ELSE input_schema[1]

\* self._tools[key] = tool: an existing key keeps its place in the order
SetItem(tools, key, tool) ==
    IF HasName(tools, key)
    THEN [i \in DOMAIN tools |-> IF tools[i].name = key THEN tool ELSE tools[i]]
    ELSE Append(tools, tool)

\* a decorator that puts the name into the mapping before it validates
decorator_reserve(tools, name, description, input_schema, func) ==
    IF ~ValidInputSchema(raw_schema(input_schema))
    THEN [tools |-> IF HasName(tools, tool_name(name, func)) THEN tools
                    ELSE Append(tools,
                             ToolDefinition(tool_name(name, func),
                                            tool_description(description, func),
                                            InputSchema(EmptyDict), Some(func))),
          exc |-> "ValueError",
          msg |-> <<"Invalid input_schema for tool '", tool_name(name, func), "': ",
                    ValidationErrorText>>,
          ret |-> None]
    ELSE IF HasName(tools, tool_name(name, func))
    THEN [tools |-> tools, exc |-> "ValueError",
          msg |-> <<"Tool '", tool_name(name, func), "' already registered">>,
          ret |-> None]
    ELSE [tools |-> SetItem(tools, tool_name(name, func),
                        ToolDefinition(tool_name(name, func),
                                       tool_description(description, func),
                                       InputSchema(raw_schema(input_schema)), Some(func))),
          exc |-> "none", msg |-> <<>>, ret |-> Some(func)]

\* a decorator without the duplicate check: the second registration wins
decorator_overwrite(tools, name, description, input_schema, func) ==
    IF ~ValidInputSchema(raw_schema(input_schema))
    THEN [tools |-> tools, exc |-> "ValueError",
          msg |-> <<"Invalid input_schema for tool '", tool_name(name, func), "': ",
                    ValidationErrorText>>,
          ret |-> None]
    ELSE [tools |-> SetItem(tools, tool_name(name, func),
                        ToolDefinition(tool_name(name, func),
                                       tool_description(description, func),
                                       InputSchema(raw_schema(input_schema)), Some(func))),
          exc |-> "none", msg |-> <<>>, ret |-> Some(func)]

\* register(name, description, input_schema)(func) on the mapping tools:
\* the mapping afterwards, the exception raised (or "none"), its message
\* and the value returned
decorator(tools, name, description, input_schema, func) ==
    IF ~ValidInputSchema(raw_schema(input_schema))
    THEN [tools |-> tools, exc |-> "ValueError",
          msg |-> <<"Invalid input_schema for tool '", tool_name(name, func), "': ",
                    ValidationErrorText>>,
          ret |-> None]
    ELSE IF HasName(tools, tool_name(name, func))
    THEN [tools |-> tools, exc |-> "ValueError",
          msg |-> <<"Tool '", tool_name(name, func), "' already registered">>,
          ret |-> None]
    ELSE [tools |-> SetItem(tools, tool_name(name, func),
                        ToolDefinition(tool_name(name, func),
                                       tool_description(description, func),
                                       InputSchema(raw_schema(input_schema)), Some(func))),
          exc |-> "none", msg |-> <<>>, ret |-> Some(func)]

\* a register on a mapping that all instances share (a class attribute)
register_shared(r, name, description, input_schema, func) ==
    LET d == decorator(_tools[r], name, description, input_schema, func)
        args == [reg |-> r, name |-> name, description |-> description,
                 input_schema |-> input_schema, func |-> func]
    IN  /\ d.tools = _tools[r] \/ Len(d.tools) <= MaxTools
        /\ _tools' = [q \in Registries |-> d.tools]
        /\ last' = Outcome("register", args, d.exc, d.msg, d.ret)
        /\ reads' = <<>>
        /\ UNCHANGED <<sys_modules, client_calls, decorators>>

\* the call registry_r.register(name, description, input_schema)(func)
register(r, name, description, input_schema, func) ==
    LET d == decorator(_tools[r], name, description, input_schema, func)
        args == [reg |-> r, name |-> name, description |-> description,
                 input_schema |-> input_schema, func |-> func]
    IN  /\ d.tools = _tools[r] \/ Len(d.tools) <= MaxTools
        /\ _tools' = [_tools EXCEPT ![r] = d.tools]
        /\ last' = Outcome("register", args, d.exc, d.msg, d.ret)
        /\ reads' = <<>>
        /\ UNCHANGED <<sys_modules, client_calls, decorators>>

\* the closure that register returns: it holds the registry and the three
\* arguments, and nothing of the registry's content
Closure(r, name, description, input_schema) ==
    [reg |-> r, name |-> name, description |-> description, input_schema |-> input_schema]

\* a register that validates the schema and looks for the name at once
register_call_eager(r, name, description, input_schema) ==
    LET dec == Closure(r, name, description, input_schema)
        bad == ~ValidInputSchema(raw_schema(input_schema))
        dup == Truthy(name) /\ HasName(_tools[r], name[1])
    IN  /\ decorators' = IF bad \/ dup THEN decorators ELSE decorators \cup {dec}
        /\ last' = IF bad
                   THEN Outcome("register_call", dec, "ValueError",
                                <<"Invalid input_schema for tool '", Str(name), "': ",
                                  ValidationErrorText>>, None)
                   ELSE IF dup
                   THEN Outcome("register_call", dec, "ValueError",
                                <<"Tool '", name[1], "' already registered">>, None)
                   ELSE Outcome("register_call", dec, "none", <<>>, Some(dec))
        /\ reads' = <<>>
        /\ UNCHANGED <<_tools, sys_modules, client_calls>>

\* dec = registry_r.register(name, description, input_schema), the
\* decorator kept for later: the body of register only defines and returns
\* the closure
register_call(r, name, description, input_schema) ==
    LET dec == Closure(r, name, description, input_schema)
    IN  /\ decorators' = decorators \cup {dec}
        /\ last' = Outcome("register_call", dec, "none", <<>>, Some(dec))
        /\ reads' = <<>>
        /\ UNCHANGED <<_tools, sys_modules, client_calls>>

\* dec(func), for a decorator obtained earlier: the checks run now, on the
\* mapping as it is now; the decorator can be applied again
apply_decorator(dec, func) ==
    LET d == decorator(_tools[dec.reg], dec.name, dec.description, dec.input_schema, func)
    IN  /\ dec \in decorators
        /\ d.tools = _tools[dec.reg] \/ Len(d.tools) <= MaxTools
        /\ _tools' = [_tools EXCEPT ![dec.reg] = d.tools]
        /\ last' = Outcome("decorator", [dec |-> dec, func |-> func], d.exc, d.msg, d.ret)
        /\ reads' = <<>>
        /\ UNCHANGED <<sys_modules, client_calls, decorators>>

\* a get_callable that reports a definition without callable as not found
get_callable_merged(r, name) ==
    LET tool == Lookup(r, name)
    IN  /\ last' = IF tool = None \/ tool[1].callable = None
                   THEN Outcome("get_callable", [reg |-> r, name |-> name], "KeyError",
                                <<"Tool '", name, "' not found">>, None)
                   ELSE Outcome("get_callable", [reg |-> r, name |-> name], "none",
                                <<>>, tool[1].callable)
        /\ reads' = <<>>
        /\ UNCHANGED <<_tools, sys_modules, client_calls, decorators>>

\* get_callable(name) on registry r: the exception raised (or "none"), its
\* message and the callable returned
get_callable_result(r, name) ==
    LET tool == Lookup(r, name)
    IN  IF tool = None
        THEN [exc |-> "KeyError", msg |-> <<"Tool '", Str(tool), "' not found">>,
              ret |-> None]
        ELSE IF tool[1].callable = None
        THEN [exc |-> "RuntimeError",
              msg |-> <<"Tool '", name, "' has no callable attached">>, ret |-> None]
        ELSE [exc |-> "none", msg |-> <<>>, ret |-> tool[1].callable]

get_callable(r, name) ==
    LET g == get_callable_result(r, name)
    IN  /\ last' = Outcome("get_callable", [reg |-> r, name |-> name], g.exc, g.msg, g.ret)
        /\ reads' = <<>>
        /\ UNCHANGED <<_tools, sys_modules, client_calls, decorators>>

\* the results of the reads made since the last other operation, the two
\* most recent ones
Remember(rd) == IF Len(reads) < 2 THEN Append(reads, rd) ELSE <<reads[2], rd>>

ListNames(r) ==
    /\ last' = Outcome("list_names", [reg |-> r], "none", <<>>, list_names(r))
    /\ reads' = Remember(Read("list_names", r, list_names(r)))
    /\ UNCHANGED <<_tools, sys_modules, client_calls, decorators>>

\* a get_json that consumes the definitions it serialises
GetJson_consuming(r) ==
    /\ last' = Outcome("get_json", [reg |-> r], "none", <<>>, get_json(r))
    /\ reads' = Remember(Read("get_json", r, get_json(r)))
    /\ _tools' = [_tools EXCEPT ![r] = <<>>]
    /\ UNCHANGED <<sys_modules, client_calls, decorators>>

GetJson(r) ==
    /\ last' = Outcome("get_json", [reg |-> r], "none", <<>>, get_json(r))
    /\ reads' = Remember(Read("get_json", r, get_json(r)))
    /\ UNCHANGED <<_tools, sys_modules, client_calls, decorators>>

GetAll(r) ==
    /\ last' = Outcome("get_all", [reg |-> r], "none", <<>>, get_all(r))
    /\ UNCHANGED <<_tools, sys_modules, client_calls, reads, decorators>>

\* fresh_registry._tools["ghost"] = ToolDefinition(..., callable=None): a
\* definition put into the mapping directly, as a dict assignment does it
\* (an existing key keeps its place and gets the new value)
InsertGhost(r, name) ==
    LET tool == ToolDefinition(name, "no callable", InputSchema(EmptyDict), None)
    IN  /\ _tools' = [_tools EXCEPT ![r] = SetItem(@, name, tool)]
        /\ Len(_tools'[r]) <= MaxTools
        /\ last' = Outcome("insert", [reg |-> r, name |-> name], "none", <<>>, None)
        /\ reads' = <<>>
        /\ UNCHANGED <<sys_modules, client_calls, decorators>>

\* ----------------------------------------------------------------- Agent
\* src/corefoundry/agent.py: an agent holds a reference to a registry (the
\* process-wide one after construction, another one once _registry is set)
Agent(name, description, reg) ==
    [name |-> name, description |-> description, _registry |-> reg]

\* a call_tool that looks the tool up in the process-wide registry
call_tool_global(agent, name, a, b) ==
    LET g == get_callable_result("registry", name)
        args == [agent |-> agent, name |-> name, a |-> a, b |-> b]
    IN  /\ last' = IF g.exc # "none"
                   THEN [op |-> "call_tool", args |-> args, exc |-> g.exc, msg |-> g.msg,
                         ret |-> None, invoked |-> <<>>]
                   ELSE [op |-> "call_tool", args |-> args, exc |-> "none", msg |-> <<>>,
                         ret |-> Some(Invoke(g.ret[1], a, b)), invoked |-> <<g.ret[1]>>]
        /\ reads' = <<>>
        /\ UNCHANGED <<_tools, sys_modules, client_calls, decorators>>

\* agent.call_tool(name, a=a, b=b); invoked lists the callables it ran
call_tool(agent, name, a, b) ==
    LET g == get_callable_result(agent._registry, name)
        args == [agent |-> agent, name |-> name, a |-> a, b |-> b]
    IN  /\ last' = IF g.exc # "none"
                   THEN [op |-> "call_tool", args |-> args, exc |-> g.exc, msg |-> g.msg,
                         ret |-> None, invoked |-> <<>>]
                   ELSE [op |-> "call_tool", args |-> args, exc |-> "none", msg |-> <<>>,
                         ret |-> Some(Invoke(g.ret[1], a, b)), invoked |-> <<g.ret[1]>>]
        /\ reads' = <<>>
        /\ UNCHANGED <<_tools, sys_modules, client_calls, decorators>>

\* ---------------------------------------------------------- autodiscover
\* src/examples/my_tools/text_tools.py
to_uppercase == [fname |-> "to_uppercase", doc |-> None, body |-> "fst"]
count_words == [fname |-> "count_words", doc |-> None, body |-> "fst"]

\* the modules importlib can find, and those of them that are packages
\* (have a __path__)
Importable == {"json", "examples", "examples.my_tools", "examples.my_tools.text_tools"}
HasPath(module) == module \in {"examples", "examples.my_tools"}

\* the packages import_module imports before the module itself, outermost
\* first
Parents(module) ==
    CASE module = "examples.my_tools.text_tools.missing"
            -> <<"examples", "examples.my_tools", "examples.my_tools.text_tools">>
      [] module = "examples.my_tools.text_tools" -> <<"examples", "examples.my_tools">>
      [] module = "examples.my_tools" -> <<"examples">>
      [] module = "nonexistent.package" -> <<"nonexistent">>
      [] OTHER -> <<>>

\* pkgutil.iter_modules(package.__path__) of the packages autodiscover is
\* given
iter_modules(package) ==
    IF package = "examples.my_tools" THEN <<"examples.my_tools.text_tools">> ELSE <<>>

\* the registrations a module makes on the process-wide registry when its
\* body runs, in order
ModuleBody(module) ==
    IF module = "examples.my_tools.text_tools"
    THEN <<[name |-> None, description |-> Some("Convert text to uppercase"),
            input_schema |-> Some([properties |-> [text |-> [type |-> "string",
                                        description |-> Some("input text")]],
                                   required |-> <<"text">>]),
            func |-> to_uppercase],
           [name |-> None, description |-> Some("Count words in text"),
            input_schema |-> Some([properties |-> [text |-> [type |-> "string"]],
                                   required |-> <<"text">>]),
            func |-> count_words]>>
    ELSE <<>>

\* running the registrations body[i..] on the mapping tools; the first
\* exception ends the run
RECURSIVE Exec(_, _, _)
Exec(tools, body, i) ==
    IF i > Len(body) THEN [tools |-> tools, exc |-> "none", msg |-> <<>>]
    ELSE LET d == decorator(tools, body[i].name, body[i].description,
                            body[i].input_schema, body[i].func)
         IN  IF d.exc # "none" THEN [tools |-> d.tools, exc |-> d.exc, msg |-> d.msg]
             ELSE Exec(d.tools, body, i + 1)

\* finding and running one module in the interpreter state st (the
\* mapping of the process-wide registry, sys.modules, the exception
\* pending): a module already imported is not run again, a module that
\* cannot be found raises ModuleNotFoundError (an ImportError), a module
\* whose body raises is not kept in sys.modules
find_and_load(st, module) ==
    IF st.exc # "none" \/ module \in st.mods THEN st
    ELSE IF module \notin Importable
    THEN [st EXCEPT !.exc = "ImportError", !.msg = <<"No module named '", module, "'">>]
    ELSE LET e == Exec(st.tools, ModuleBody(module), 1)
         IN  [tools |-> e.tools,
              mods |-> st.mods \cup (IF e.exc = "none" THEN {module} ELSE {}),
              exc |-> e.exc, msg |-> e.msg]

RECURSIVE LoadAll(_, _, _)
LoadAll(st, modules, i) ==
    IF i > Len(modules) THEN st
    ELSE LoadAll(find_and_load(st, modules[i]), modules, i + 1)

\* importlib.import_module(module): the parent packages, then the module
import_module(st, module) == find_and_load(LoadAll(st, Parents(module), 1), module)

\* for _, module_name, _ in pkgutil.iter_modules(...): import_module(...)
RECURSIVE ImportAll(_, _, _)
ImportAll(st, modules, i) ==
    IF i > Len(modules) THEN st
    ELSE ImportAll(import_module(st, modules[i]), modules, i + 1)

\* the interpreter state autodiscover(package_name) ends in
Discover(st, package_name) ==
    LET imported == import_module(st, package_name)
    IN  IF imported.exc = "ImportError"
        THEN [imported EXCEPT !.msg = <<"Could not import package '", package_name, "': ">>
                                        \o imported.msg]
        ELSE IF imported.exc # "none" \/ ~HasPath(package_name) THEN imported
        ELSE ImportAll(imported, iter_modules(package_name), 1)

\* an autodiscover whose modules register into the registry it is called on
autodiscover_self(r, package_name) ==
    LET end == Discover([tools |-> _tools[r], mods |-> sys_modules,
                         exc |-> "none", msg |-> <<>>], package_name)
    IN  /\ _tools' = [_tools EXCEPT ![r] = end.tools]
        /\ sys_modules' = end.mods
        /\ last' = Outcome("autodiscover", [reg |-> r, package_name |-> package_name],
                           end.exc, end.msg, None)
        /\ reads' = <<>>
        /\ UNCHANGED <<client_calls, decorators>>

\* an autodiscover that lets the ImportError of import_module through
autodiscover_unwrapped(r, package_name) ==
    LET st == import_module([tools |-> _tools["registry"], mods |-> sys_modules,
                             exc |-> "none", msg |-> <<>>], package_name)
        end == IF st.exc # "none" \/ ~HasPath(package_name) THEN st
               ELSE ImportAll(st, iter_modules(package_name), 1)
    IN  /\ _tools' = [_tools EXCEPT !["registry"] = end.tools]
        /\ sys_modules' = end.mods
        /\ last' = Outcome("autodiscover", [reg |-> r, package_name |-> package_name],
                           end.exc, end.msg, None)
        /\ reads' = <<>>
        /\ UNCHANGED <<client_calls, decorators>>

\* registry_r.autodiscover(package_name); the modules imported register
\* into the process-wide registry they import from corefoundry.core
autodiscover(r, package_name) ==
    LET end == Discover([tools |-> _tools["registry"], mods |-> sys_modules,
                         exc |-> "none", msg |-> <<>>], package_name)
    IN  /\ _tools' = [_tools EXCEPT !["registry"] = end.tools]
        /\ sys_modules' = end.mods
        /\ last' = Outcome("autodiscover", [reg |-> r, package_name |-> package_name],
                           end.exc, end.msg, None)
        /\ reads' = <<>>
        /\ UNCHANGED <<client_calls, decorators>>

\* ------------------------------------------------------------- adapters
DefaultMaxTokens == 1024

\* OpenAIAdapter(client, registry, model, **extra)
OpenAIAdapter(registry, model, extra) ==
    [variant |-> "openai", registry |-> registry, model |-> model, extra |-> extra]

\* AnthropicAdapter(client, registry, model, max_tokens, **extra)
AnthropicAdapter(registry, model, max_tokens, extra) ==
    [variant |-> "anthropic", registry |-> registry, model |-> model,
     max_tokens |-> max_tokens, extra |-> extra]

\* messages=[{"role": "user", "content": prompt}]
Messages(prompt) == <<[role |-> "user", content |-> prompt]>>

\* the keyword arguments both generate and call_with_tools pass; the extra
\* options of the adapters modelled never repeat one of these keywords
BaseKwargs(adapter, prompt) ==
    IF adapter.variant = "openai"
    THEN [model |-> adapter.model, messages |-> Messages(prompt)] @@ adapter.extra
    ELSE [model |-> adapter.model, max_tokens |-> adapter.max_tokens,
          messages |-> Messages(prompt)] @@ adapter.extra

\* client.chat.completions.create / client.messages.create, as the mock
\* client records a call
ClientCall(adapter, kwargs) ==
    [method |-> IF adapter.variant = "openai" THEN "chat.completions.create"
                ELSE "messages.create",
     kwargs |-> kwargs]

\* the client returns response; the adapter returns it
generate(adapter, prompt, response) ==
    /\ Len(client_calls) < MaxCalls
    /\ client_calls' = Append(client_calls, ClientCall(adapter, BaseKwargs(adapter, prompt)))
    /\ last' = Outcome("generate",
                       [adapter |-> adapter, prompt |-> prompt, response |-> response],
                       "none", <<>>, response)
    /\ reads' = <<>>
    /\ UNCHANGED <<_tools, sys_modules, decorators>>

\* a call_with_tools that sends the tools list taken when the adapter was
\* constructed (the adapters exist from the start, when the registries are
\* empty)
call_with_tools_snapshot(adapter, prompt, response) ==
    /\ Len(client_calls) < MaxCalls
    /\ client_calls' = Append(client_calls,
            ClientCall(adapter, [tools |-> <<>>] @@ BaseKwargs(adapter, prompt)))
    /\ last' = Outcome("call_with_tools",
                       [adapter |-> adapter, prompt |-> prompt, response |-> response],
                       "none", <<>>, response)
    /\ reads' = <<>>
    /\ UNCHANGED <<_tools, sys_modules, decorators>>

\* a call_with_tools that sends the tools of the process-wide registry
\* instead of those of the registry the adapter was built with
call_with_tools_global(adapter, prompt, response) ==
    /\ Len(client_calls) < MaxCalls
    /\ client_calls' = Append(client_calls,
            ClientCall(adapter, [tools |-> get_json("registry")] @@ BaseKwargs(adapter, prompt)))
    /\ last' = Outcome("call_with_tools",
                       [adapter |-> adapter, prompt |-> prompt, response |-> response],
                       "none", <<>>, response)
    /\ reads' = <<>>
    /\ UNCHANGED <<_tools, sys_modules, decorators>>

call_with_tools(adapter, prompt, response) ==
    /\ Len(client_calls) < MaxCalls
    /\ client_calls' = Append(client_calls,
            ClientCall(adapter, [tools |-> get_json(adapter.registry)]
                                    @@ BaseKwargs(adapter, prompt)))
    /\ last' = Outcome("call_with_tools",
                       [adapter |-> adapter, prompt |-> prompt, response |-> response],
                       "none", <<>>, response)
    /\ reads' = <<>>
    /\ UNCHANGED <<_tools, sys_modules, decorators>>

\* ------------------------------------------------------- specifications
Init ==
    /\ _tools = [r \in Registries |-> <<>>]
    /\ sys_modules = {}
    /\ client_calls = <<>>
    /\ last = Outcome("init", <<>>, "none", <<>>, None)
    /\ reads = <<>>
    /\ decorators = {}

\* Spec: registration, lookup and the reads on the process-wide registry
NameArgs == {None, Some("dup")}
DescriptionArgs == {None, Some("first")}
SchemaArgs == {None, Some(SchemaTestDump), Some(SchemaNoType)}
Funcs == {multiply, documented}
LookupNames == {"dup", "multiply", "xyz"}

Next ==
    \/ \E name \in NameArgs, description \in DescriptionArgs,
          input_schema \in SchemaArgs, func \in Funcs :
            register("registry", name, description, input_schema, func)
    \/ \E name \in LookupNames : get_callable("registry", name)
    \/ ListNames("registry")
    \/ GetJson("registry")

Spec == Init /\ [][Next]_vars

\* SpecSchema: every input_schema description, on a fresh registry
AllSchemaArgs == {None, Some(EmptyDict), Some(SchemaTestDump), Some(SchemaMinimal),
                  Some(SchemaBad), Some(SchemaFormat), Some(SchemaNoType),
                  Some(SchemaTyped)}

NextSchema ==
    \/ \E name \in {None, Some("bad")}, input_schema \in AllSchemaArgs :
            register("fresh", name, Some("test"), input_schema, multiply)
    \/ \E name \in {"bad", "multiply"} : get_callable("fresh", name)
    \/ ListNames("fresh")
    \/ GetJson("fresh")

SpecSchema == Init /\ [][NextSchema]_vars

\* SpecGhost: a registry that also holds definitions without callable
NextGhost ==
    \/ \E name \in {Some("ghost"), Some("add")}, func \in {first, multiply} :
            register("fresh", name, None, None, func)
    \/ \E name \in {"ghost", "add"} : InsertGhost("fresh", name)
    \/ \E name \in {"ghost", "add", "nonexistent"} : get_callable("fresh", name)
    \/ ListNames("fresh")
    \/ GetJson("fresh")

SpecGhost == Init /\ [][NextGhost]_vars

\* SpecAdapter: adapters over two registries and a recording client
echo == [fname |-> "echo", doc |-> None, body |-> "fst"]
SchemaEcho == [properties |-> [msg |-> [type |-> "string"]], required |-> <<"msg">>]
Adapters ==
    {OpenAIAdapter("fresh", "gpt-4o-mini", [temperature |-> "0.5"]),
     AnthropicAdapter("registry", "claude-3.5-sonnet-20241022", DefaultMaxTokens,
                      [system |-> "You are helpful"])}
Prompts == {"use echo"}
Responses == {"mock_tool_response", "response"}

NextAdapter ==
    \/ \E r \in Registries, name \in {None, Some("ping")} :
            register(r, name, Some("Echo input"), Some(SchemaEcho), echo)
    \/ \E adapter \in Adapters, prompt \in Prompts, response \in Responses :
            generate(adapter, prompt, response)
    \/ \E adapter \in Adapters, prompt \in Prompts, response \in Responses :
            call_with_tools(adapter, prompt, response)
    \/ \E r \in Registries : GetJson(r)

SpecAdapter == Init /\ [][NextAdapter]_vars

\* SpecDiscover: autodiscover on either registry, with registrations that
\* can clash with those of the modules imported
Packages == {"nonexistent.package", "json", "examples.my_tools",
             "examples.my_tools.text_tools", "examples.my_tools.text_tools.missing"}

NextDiscover ==
    \/ \E r \in Registries, name \in {None, Some("count_words")},
          input_schema \in {None, Some(SchemaNoType)} :
            register(r, name, None, input_schema, multiply)
    \/ \E r \in Registries, package_name \in Packages : autodiscover(r, package_name)
    \/ \E r \in Registries, name \in {"multiply", "count_words"} : get_callable(r, name)
    \/ \E r \in Registries : ListNames(r)
    \/ \E r \in Registries : GetJson(r)
    \/ \E r \in Registries : GetAll(r)

SpecDiscover == Init /\ [][NextDiscover]_vars

\* SpecResolve: registrations on one registry with every way of giving or
\* leaving out the name and the description (None, the empty string, a
\* text), by callables with and without documentation string
ResolveNames == {None, Some(""), Some("greet")}
ResolveDescriptions == {None, Some(""), Some("Say hello")}
ResolveFuncs == {multiply, documented, blank}

NextResolve ==
    \/ \E name \in ResolveNames, description \in ResolveDescriptions,
          func \in ResolveFuncs :
            register("fresh", name, description, None, func)
    \/ \E name \in {"", "greet", "documented", "multiply"} : get_callable("fresh", name)
    \/ ListNames("fresh")
    \/ GetJson("fresh")

SpecResolve == Init /\ [][NextResolve]_vars

\* SpecAgent: two agents, one on each registry, calling tools that are
\* registered, absent or without callable
Agents == {Agent("TestAgent", "test agent", "fresh"), Agent("DemoAgent", "", "registry")}
ToolArgs == {2, 3}
AgentToolNames == {"first", "multiply", "ghost", "nonexistent"}

NextAgent ==
    \/ \E r \in Registries, func \in {first, multiply} :
            register(r, None, None, None, func)
    \/ \E r \in Registries : InsertGhost(r, "ghost")
    \/ \E agent \in Agents, name \in AgentToolNames, a \in ToolArgs :
            call_tool(agent, name, a, 3)
    \/ \E r \in Registries, name \in {"multiply", "ghost"} : get_callable(r, name)

SpecAgent == Init /\ [][NextAgent]_vars

\* SpecTwoStep: decorators obtained from register and applied later, any
\* number of times, among other registrations
TwoStepNames == {None, Some("dup")}
TwoStepSchemas == {None, Some(SchemaNoType)}
TwoStepClosures ==
    {Closure("fresh", name, None, input_schema) :
        name \in TwoStepNames, input_schema \in TwoStepSchemas}

NextTwoStep ==
    \/ \E name \in TwoStepNames, input_schema \in TwoStepSchemas :
            register_call("fresh", name, None, input_schema)
    \/ \E dec \in TwoStepClosures, func \in {multiply, first} : apply_decorator(dec, func)
    \/ \E name \in {Some("dup"), Some("other")} : register("fresh", name, None, None, first)
    \/ ListNames("fresh")

SpecTwoStep == Init /\ [][NextTwoStep]_vars

\* ================================================================ claims
\* the name and schema description of the registration recorded in last
LastName == tool_name(last.args.name, last.args.func)
LastRaw == raw_schema(last.args.input_schema)
LastTools == _tools[last.args.reg]

\* the names of a mapping in order, and the definition it holds under a name
NamesOf(tools) == [i \in DOMAIN tools |-> tools[i].name]
Held(tools, name) == tools[CHOOSE i \in DOMAIN tools : tools[i].name = name]

\* C1 as stated: applying the decorator under a name that is already in the
\* registry always fails with the naming-conflict error 'already
\* registered', whatever description or input_schema the second
\* registration carries, and leaves the registry unchanged.
C1_DuplicateAlwaysNamingConflict ==
    [][(last'.op = "register" /\ HasName(_tools[last'.args.reg], LastName'))
          => /\ last'.exc = "ValueError"
             /\ Contains(last'.msg, "' already registered")
             /\ _tools' = _tools]_vars

\* C1 amended: applying the decorator under a name that is already in the
\* registry always fails with a ValueError and leaves the registry
\* unchanged (same list_names(), same definition and callable under the
\* name); the error is the naming conflict 'already registered' when the
\* second registration's input_schema is valid, and the validation error
\* 'Invalid input_schema' when it is not.
C1_DuplicateFails ==
    [][(last'.op = "register" /\ HasName(_tools[last'.args.reg], LastName'))
          => /\ last'.exc = "ValueError"
             /\ Contains(last'.msg, LastName')
             /\ IF ValidInputSchema(LastRaw')
                THEN Contains(last'.msg, "' already registered")
                ELSE Contains(last'.msg, "Invalid input_schema for tool '")
             /\ _tools' = _tools
             /\ NamesOf(LastTools') = NamesOf(_tools[last'.args.reg])
             /\ Held(LastTools', LastName') = Held(_tools[last'.args.reg], LastName')]_vars

\* a second registration with another description, schema and callable was
\* refused with the naming conflict
C1_Witness ==
    /\ last.op = "register"
    /\ last.exc = "ValueError"
    /\ Contains(last.msg, "' already registered")
    /\ HasName(LastTools, LastName)
    /\ Held(LastTools, LastName).callable # Some(last.args.func)
    /\ Held(LastTools, LastName).description
          # tool_description(last.args.description, last.args.func)
    /\ Held(LastTools, LastName).input_schema # InputSchema(LastRaw)

\* C2 as stated: for every name that is not registered, get_callable(name)
\* fails with a KeyError whose message contains the requested name and
\* never the text 'None'.
C2_KeyErrorNamesTheTool ==
    (last.op = "get_callable" /\ ~HasName(LastTools, last.args.name))
        => /\ last.exc = "KeyError"
           /\ Contains(last.msg, last.args.name)
           /\ ~Contains(last.msg, "None")

\* a property of type "array" without "items" in a schema description
ArrayWithoutItems(raw) ==
    \E n \in DOMAIN RawProperties(raw) :
        /\ "type" \in DOMAIN RawProperties(raw)[n]
        /\ RawProperties(raw)[n].type = "array"
        /\ "items" \notin DOMAIN RawProperties(raw)[n]

\* C3 as stated: a registration whose input_schema has an array property
\* without items fails with the validation error 'Invalid input_schema',
\* whose message names the tool, and stores nothing.
C3_ArrayWithoutItemsRejected ==
    (last.op = "register" /\ ArrayWithoutItems(LastRaw))
        => /\ last.exc = "ValueError"
           /\ Contains(last.msg, "Invalid input_schema for tool '")
           /\ Contains(last.msg, LastName)

\* the input_schema get_json() shows for the tool registered last
LastJsonSchema ==
    LET i == CHOOSE j \in DOMAIN LastTools : LastTools[j].name = LastName
    IN  get_json(last.args.reg)[i].input_schema

\* C4 as stated: for a schema description S accepted by register, the
\* input_schema of get_json() builds an InputSchema equal to the one built
\* from S, and every property field supplied in S (items, enum, ...)
\* appears in get_json() with the same value.
C4_SchemaRoundTrip ==
    (last.op = "register" /\ last.exc = "none")
        => /\ InputSchema(LastJsonSchema) = InputSchema(LastRaw)
           /\ \A n \in DOMAIN RawProperties(LastRaw) :
                \A k \in DOMAIN RawProperties(LastRaw)[n] :
                    /\ k \in DOMAIN LastJsonSchema.properties[n]
                    /\ LastJsonSchema.properties[n][k] = RawProperties(LastRaw)[n][k]

\* the fields of a property other than type are optional
OptionalFields == {"description", "items", "enum", "properties", "required"}

\* C5: in every registry state no property in get_json() carries a field
\* with a null value, and after a registration no optional field that the
\* schema description left out shows up in get_json().
C5_NoNullFields ==
    /\ \A r \in Registries : \A i \in DOMAIN get_json(r) :
         \A n \in DOMAIN get_json(r)[i].input_schema.properties :
            \A k \in DOMAIN get_json(r)[i].input_schema.properties[n] \cap OptionalFields :
                get_json(r)[i].input_schema.properties[n][k] # None
    /\ (last.op = "register" /\ last.exc = "none")
         => \A n \in DOMAIN RawProperties(LastRaw) :
              \A k \in OptionalFields \ DOMAIN RawProperties(LastRaw)[n] :
                  k \notin DOMAIN LastJsonSchema.properties[n]

\* get_json() was called on a registry holding a property without description
C5_Witness ==
    /\ last.op = "get_json"
    /\ \E i \in DOMAIN last.ret : \E n \in DOMAIN last.ret[i].input_schema.properties :
          /\ _tools[last.args.reg][i].input_schema.properties[n].description = None
          /\ "description" \notin DOMAIN last.ret[i].input_schema.properties[n]

\* C6: get_callable(n) returns the callable that register stored under n:
\* a successful registration stores its callable under the resolved name,
\* later operations never change the callable held under a name, and
\* get_callable of a registered name returns the callable held under it.
C6_GetCallableReturnsRegistered ==
    [][/\ (last'.op = "register" /\ last'.exc = "none")
            => /\ HasName(LastTools', LastName')
               /\ Held(LastTools', LastName').callable = Some(last'.args.func)
       /\ \A r \in Registries : \A i \in DOMAIN _tools[r] :
            /\ i \in DOMAIN _tools'[r]
            /\ _tools'[r][i].name = _tools[r][i].name
            /\ _tools'[r][i].callable = _tools[r][i].callable
       /\ (last'.op = "get_callable" /\ HasName(_tools[last'.args.reg], last'.args.name))
            => \E i \in DOMAIN _tools[last'.args.reg] :
                  /\ _tools[last'.args.reg][i].name = last'.args.name
                  /\ last'.exc = "none"
                  /\ last'.ret = _tools[last'.args.reg][i].callable]_vars

\* get_callable("multiply") on a registry whose first tool is another one
\* returned multiply, and multiply(a=6, b=7) == 42
C6_Witness ==
    /\ last.op = "get_callable"
    /\ last.exc = "none"
    /\ last.ret = Some(multiply)
    /\ Invoke(last.ret[1], 6, 7) = 42
    /\ Len(LastTools) = 2
    /\ LastTools[2].name = last.args.name
    /\ LastTools[1].callable # last.ret

\* C7: get_callable fails with RuntimeError 'no callable attached', never
\* KeyError, for a registered name whose definition has no callable, and
\* with KeyError, never RuntimeError, for a name that is not registered.
C7_DistinctFailures ==
    last.op = "get_callable"
        => /\ (HasName(LastTools, last.args.name)
                /\ Held(LastTools, last.args.name).callable = None)
              => /\ last.exc = "RuntimeError"
                 /\ Contains(last.msg, "' has no callable attached")
                 /\ Contains(last.msg, last.args.name)
           /\ ~HasName(LastTools, last.args.name)
              => /\ last.exc = "KeyError"
                 /\ Contains(last.msg, "' not found")

\* get_callable("ghost") on a registry holding ghost without callable
C7_Witness ==
    /\ last.op = "get_callable"
    /\ last.exc = "RuntimeError"
    /\ HasName(LastTools, last.args.name)

\* C8: call_with_tools(prompt) of either adapter makes exactly one client
\* call, whose tools argument is get_json() of the adapter's registry (one
\* entry per registered tool) and whose messages argument is the single
\* user message carrying the prompt; it returns the client's response
\* unmodified and leaves the registry alone.
C8_CallWithToolsPassesGetJson ==
    [][last'.op = "call_with_tools"
          => /\ Len(client_calls') = Len(client_calls) + 1
             /\ SubSeq(client_calls', 1, Len(client_calls)) = client_calls
             /\ "tools" \in DOMAIN client_calls'[Len(client_calls')].kwargs
             /\ client_calls'[Len(client_calls')].kwargs.tools
                    = get_json(last'.args.adapter.registry)
             /\ Len(client_calls'[Len(client_calls')].kwargs.tools)
                    = Len(_tools[last'.args.adapter.registry])
             /\ client_calls'[Len(client_calls')].kwargs.messages
                    = <<[role |-> "user", content |-> last'.args.prompt]>>
             /\ last'.exc = "none"
             /\ last'.ret = last'.args.response
             /\ _tools' = _tools]_vars

\* an adapter over a registry holding only echo, while the other registry
\* holds something else, sent a tools list of the single entry echo
C8_Witness ==
    /\ last.op = "call_with_tools"
    /\ client_calls # <<>>
    /\ Len(client_calls[Len(client_calls)].kwargs.tools) = 1
    /\ client_calls[Len(client_calls)].kwargs.tools[1].name = "echo"
    /\ NamesOf(_tools[last.args.adapter.registry]) = <<"echo">>
    /\ \E r \in Registries : NamesOf(_tools[r]) # <<"echo">>
    /\ last.ret = "mock_tool_response"

\* C9: two calls of list_names(), or of get_json(), on the same registry
\* with no other operation in between return identical results, and
\* neither call changes the registry.
C9_ReadsIdempotent ==
    [][/\ last'.op \in {"list_names", "get_json"} => _tools' = _tools
       /\ (Len(reads') = 2 /\ reads'[1].op = reads'[2].op /\ reads'[1].reg = reads'[2].reg)
            => reads'[1].ret = reads'[2].ret]_vars

\* get_json() was called twice in succession on a registry holding two
\* tools
C9_Witness ==
    /\ Len(reads) = 2
    /\ reads[1].op = "get_json"
    /\ reads[2].op = "get_json"
    /\ reads[1].reg = reads[2].reg
    /\ Len(reads[2].ret) = 2

\* a module without sub-modules
PlainModule(module) == module \in Importable /\ ~HasPath(module)

\* C10 as stated: autodiscover of a package that cannot be imported fails
\* with an ImportError 'Could not import package' carrying the cause, and
\* autodiscover of a plain module returns normally; neither changes the
\* registry.
C10_NothingToImportNoEffect ==
    [][last'.op = "autodiscover"
          => /\ last'.args.package_name \notin Importable
                => /\ last'.exc = "ImportError"
                   /\ Contains(last'.msg, "Could not import package '")
                   /\ Contains(last'.msg, "No module named '")
                   /\ _tools' = _tools
             /\ PlainModule(last'.args.package_name)
                => /\ last'.exc = "none"
                   /\ _tools' = _tools]_vars

\* importing the target runs a module that registers tools: the target or
\* one of its parents does, and has not been imported yet
RegistersOnImport(module) ==
    \E m \in (Range(Parents(module)) \cup {module}) \ sys_modules : ModuleBody(m) # <<>>

\* C10 amended: autodiscover of a target with nothing to import imports
\* the target (with its parent packages) and nothing else, and never
\* writes to a registry other than the one the imported modules register
\* into.  Provided no module imported on the way registers tools, the
\* registry is unchanged, a package that cannot be imported fails with an
\* ImportError 'Could not import package' carrying the cause, and a plain
\* module returns normally.
C10_PlainModuleOnlyImported ==
    [][(last'.op = "autodiscover"
          /\ (last'.args.package_name \notin Importable
                \/ PlainModule(last'.args.package_name)))
          => /\ sys_modules' \subseteq sys_modules \cup {last'.args.package_name}
                                    \cup Range(Parents(last'.args.package_name))
             /\ _tools'["fresh"] = _tools["fresh"]
             /\ ~RegistersOnImport(last'.args.package_name)
                => /\ _tools' = _tools
                   /\ last'.args.package_name \notin Importable
                        => /\ last'.exc = "ImportError"
                           /\ Contains(last'.msg, "Could not import package '")
                           /\ Contains(last'.msg, last'.args.package_name)
                           /\ Contains(last'.msg, "No module named '")
                   /\ PlainModule(last'.args.package_name) => last'.exc = "none"]_vars

\* autodiscover of a package that cannot be imported failed on a registry
\* that holds a tool, after autodiscover of the plain module json returned
C10_Witness ==
    /\ last.op = "autodiscover"
    /\ last.args.package_name = "nonexistent.package"
    /\ last.exc = "ImportError"
    /\ "json" \in sys_modules
    /\ _tools[last.args.reg] # <<>>

\* C11: a definition stored under a name stays as it is through every
\* later registry operation: the name keeps its place in list_names(), and
\* get_json() and get_callable show the same description, input schema and
\* callable for it.
C11_DefinitionsPermanent ==
    [][\A r \in Registries : \A i \in DOMAIN _tools[r] :
          /\ i \in DOMAIN _tools'[r]
          /\ _tools'[r][i] = _tools[r][i]
          /\ list_names(r)'[i] = list_names(r)[i]
          /\ get_json(r)'[i] = get_json(r)[i]
          /\ Lookup(r, _tools[r][i].name)' = Lookup(r, _tools[r][i].name)]_vars

\* multiply, registered first, is still the first definition after
\* autodiscover added the tools of text_tools and a later registration
\* under its name was refused
C11_Witness ==
    /\ last.op = "register"
    /\ last.exc = "ValueError"
    /\ last.args.reg = "registry"
    /\ LastName = "multiply"
    /\ "examples.my_tools.text_tools" \in sys_modules
    /\ Len(_tools["registry"]) = 3
    /\ _tools["registry"][1].name = "multiply"
    /\ _tools["registry"][1].callable = Some(multiply)

\* C12: in every registry state, every entry of get_json() has
\* input_schema.type equal to "object", whatever input_schema description
\* was supplied at registration.
C12_TypeAlwaysObject ==
    \A r \in Registries : \A i \in DOMAIN get_json(r) :
        get_json(r)[i].input_schema.type = "object"

\* C13: a registration on one instance, successful or failing, leaves
\* list_names(), get_json() and the get_callable results of every other
\* instance unchanged, and a name that another instance holds is registered
\* on this instance without a naming conflict when this instance does not
\* hold it yet.
C13_InstancesIndependent ==
    [][last'.op = "register" =>
          /\ \A q \in Registries \ {last'.args.reg} :
                /\ _tools'[q] = _tools[q]
                /\ list_names(q)' = list_names(q)
                /\ get_json(q)' = get_json(q)
                /\ \A n \in LookupNames \cup {"count_words"} :
                        Lookup(q, n)' = Lookup(q, n)
          /\ (/\ ValidInputSchema(LastRaw')
              /\ ~HasName(_tools[last'.args.reg], LastName'))
             => /\ last'.exc = "none"
                /\ HasName(_tools'[last'.args.reg], LastName')]_vars

\* count_words is registered on the fresh instance while the default
\* registry holds a tool of that name already; each holds it once
C13_Witness ==
    /\ last.op = "register"
    /\ last.exc = "none"
    /\ last.args.reg = "fresh"
    /\ LastName = "count_words"
    /\ Cardinality({i \in DOMAIN _tools["fresh"] : _tools["fresh"][i].name = "count_words"}) = 1
    /\ Cardinality({i \in DOMAIN _tools["registry"] :
                        _tools["registry"][i].name = "count_words"}) = 1
    /\ _tools["fresh"] # _tools["registry"]

\* the definition the last registration stored, and its entry in get_json()
LastStored == Held(LastTools, LastName)
LastJson == get_json(last.args.reg)[CHOOSE i \in DOMAIN LastTools : LastTools[i].name = LastName]

\* C14 as stated: the stored description, also shown by get_json(), is the
\* explicit description argument when one is given, otherwise the callable's
\* documentation string when it has one, otherwise 'No description
\* provided'; and it is never empty.
C14_DescriptionFallback ==
    (last.op = "register" /\ last.exc = "none") =>
        /\ LastStored.description =
              IF last.args.description # None THEN last.args.description[1]
              ELSE IF last.args.func.doc # None THEN last.args.func.doc[1]
              ELSE "No description provided"
        /\ LastJson.description = LastStored.description
        /\ LastStored.description # ""

\* C14 amended: the stored description, also shown by get_json(), is the
\* explicit description argument when one is given and not empty, otherwise
\* the callable's documentation string when it has a non-empty one,
\* otherwise 'No description provided'; no stored description is empty.
C14_DescriptionFallbackNonEmpty ==
    /\ (last.op = "register" /\ last.exc = "none") =>
        /\ LastStored.description =
              IF last.args.description \notin {None, Some("")}
              THEN last.args.description[1]
              ELSE IF last.args.func.doc \notin {None, Some("")}
              THEN last.args.func.doc[1]
              ELSE "No description provided"
        /\ LastJson.description = LastStored.description
    /\ \A r \in Registries : \A i \in DOMAIN _tools[r] :
        /\ _tools[r][i].description # ""
        /\ get_json(r)[i].description # ""

\* a registration with the empty description by the callable whose
\* documentation string is empty has stored the literal
C14_Witness ==
    /\ last.op = "register"
    /\ last.exc = "none"
    /\ last.args.description = Some("")
    /\ last.args.func = blank
    /\ LastJson.description = "No description provided"
    /\ \E i \in DOMAIN LastTools : LastTools[i].description = "A documented tool."

\* C15 as stated: a tool is stored under the explicit name argument when one
\* is given, otherwise under the callable's identifier, and list_names(),
\* get_json() and get_callable know it under that name.
C15_NameResolution ==
    (last.op = "register" /\ last.exc = "none") =>
        LET n == IF last.args.name # None THEN last.args.name[1] ELSE last.args.func.fname
        IN  /\ list_names(last.args.reg)[Len(LastTools)] = n
            /\ get_json(last.args.reg)[Len(LastTools)].name = n
            /\ Lookup(last.args.reg, n) # None

\* the name of the claim: the argument when given and not empty, else the
\* identifier of the callable
ResolvedName(name, func) == IF name \notin {None, Some("")} THEN name[1] ELSE func.fname

\* C15 amended: a tool is stored under the explicit name argument when one
\* is given and not empty, otherwise under the callable's identifier. The
\* duplicate check compares this name (a registration with a valid schema
\* fails exactly when the registry holds it), list_names() lists it last,
\* get_json() reports it, and get_callable accepts exactly the names stored.
C15_NameResolutionNonEmpty ==
    [][\A r \in Registries :
        /\ (last'.op = "register" /\ last'.args.reg = r /\ ValidInputSchema(LastRaw')) =>
            LET n == ResolvedName(last'.args.name, last'.args.func)
            IN  IF HasName(_tools[r], n)
                THEN /\ last'.exc = "ValueError"
                     /\ last'.msg = <<"Tool '", n, "' already registered">>
                     /\ _tools'[r] = _tools[r]
                ELSE /\ last'.exc = "none"
                     /\ list_names(r)' = Append(list_names(r), n)
                     /\ get_json(r)'[Len(_tools'[r])].name = n
                     /\ HasName(_tools'[r], n)
                     /\ Held(_tools'[r], n).callable = Some(last'.args.func)
        /\ (last'.op = "get_callable" /\ last'.args.reg = r) =>
            (last'.exc = "none" <=> HasName(_tools[r], last'.args.name))]_vars

\* multiply, registered under the explicit name greet, is found under greet
\* by get_callable while documented is held under its own identifier
C15_Witness ==
    /\ last.op = "get_callable"
    /\ last.args.name = "greet"
    /\ last.exc = "none"
    /\ last.ret = Some(multiply)
    /\ list_names(last.args.reg) = <<"documented", "greet">>

\* C16: agent.call_tool(name, a, b) is get_callable(name) on the agent's
\* registry followed by the invocation of what it returned: for a registered
\* tool it returns the callable's result; for a name that is absent it
\* raises the registry's KeyError and for a definition without callable the
\* registry's RuntimeError, each with the registry's message, and then
\* invokes nothing; the registries are unchanged in every case.
C16_CallToolDelegates ==
    [][last'.op = "call_tool" =>
        LET r == last'.args.agent._registry
            n == last'.args.name
        IN  /\ _tools' = _tools
            /\ last'.exc = get_callable_result(r, n).exc
            /\ last'.msg = get_callable_result(r, n).msg
            /\ IF ~HasName(_tools[r], n)
               THEN last'.exc = "KeyError" /\ last'.invoked = <<>>
               ELSE IF Held(_tools[r], n).callable = None
               THEN last'.exc = "RuntimeError" /\ last'.invoked = <<>>
               ELSE /\ last'.exc = "none"
                    /\ last'.invoked = <<Held(_tools[r], n).callable[1]>>
                    /\ last'.ret = Some(Invoke(Held(_tools[r], n).callable[1],
                                               last'.args.a, last'.args.b))]_vars

\* the agent on the fresh registry is refused the definition without
\* callable while that registry holds a callable tool and the process-wide
\* registry holds a callable under the name asked for
C16_Witness ==
    /\ last.op = "call_tool"
    /\ last.exc = "RuntimeError"
    /\ last.args.agent._registry = "fresh"
    /\ last.args.name = "ghost"
    /\ last.invoked = <<>>
    /\ \E i \in DOMAIN _tools["fresh"] : _tools["fresh"][i].callable # None
    /\ \E i \in DOMAIN _tools["registry"] : _tools["registry"][i].name = "multiply"

\* the names under which SpecSchema registers
SchemaNames == {"bad", "multiply"}

\* C17: a registration rejected for schema validation stores nothing: every
\* registry is as before; a name that was not registered before is not in
\* list_names() and get_callable fails for it with the lookup error. A
\* registration of a name the registry does not hold, with a valid schema,
\* succeeds whatever was rejected before it.
C17_RejectedStoresNothing ==
    [][/\ \A r \in Registries, n \in SchemaNames :
            (last'.op = "register" /\ last'.args.reg = r /\ LastName' = n) =>
                /\ ~ValidInputSchema(LastRaw') =>
                    /\ last'.exc = "ValueError"
                    /\ Contains(last'.msg, "Invalid input_schema for tool '")
                    /\ _tools' = _tools
                    /\ list_names(r)' = list_names(r)
                    /\ ~HasName(_tools[r], n) =>
                        /\ \A i \in DOMAIN list_names(r)' : list_names(r)'[i] # n
                        /\ get_callable_result(r, n)'.exc = "KeyError"
                /\ (ValidInputSchema(LastRaw') /\ ~HasName(_tools[r], n)) =>
                    /\ last'.exc = "none"
                    /\ HasName(_tools'[r], n)
       \* the registration that follows a rejected one, of the same name
       /\ (/\ last.op = "register" /\ last.exc = "ValueError"
           /\ Contains(last.msg, "Invalid input_schema for tool '")
           /\ ~HasName(LastTools, LastName)
           /\ last'.op = "register" /\ LastName' = LastName
           /\ ValidInputSchema(LastRaw'))
          => last'.exc = "none" /\ HasName(LastTools', LastName')]_vars

\* bad was rejected for its schema while the registry holds another tool:
\* bad is not registered
C17_Witness ==
    /\ last.op = "register"
    /\ last.exc = "ValueError"
    /\ ~ValidInputSchema(LastRaw)
    /\ LastName = "bad"
    /\ ~HasName(LastTools, "bad")
    /\ Len(LastTools) = 1

\* the callables that the bodies of the importable modules register
ModuleCallables ==
    {ModuleBody(m)[j].func : <<m, j>> \in {<<m, j>> \in Importable \X (1..2) :
                                                j \in DOMAIN ModuleBody(m)}}

\* C18: autodiscover writes to no registry itself: every registry other
\* than the process-wide one, which the modules of examples.my_tools
\* reference, is unchanged by it, whichever registry it is called on; the
\* process-wide registry keeps its definitions and gains only definitions
\* that module bodies register. Called on the fresh instance with
\* examples.my_tools, when text_tools is imported for the first time and the
\* process-wide registry holds neither of its names, it leaves the fresh
\* instance unchanged and adds to_uppercase and count_words to the
\* process-wide registry.
C18_AutodiscoverWritesNothingItself ==
    [][last'.op = "autodiscover" =>
        /\ _tools'["fresh"] = _tools["fresh"]
        /\ list_names("fresh")' = list_names("fresh")
        /\ \A i \in DOMAIN _tools["registry"] :
                i \in DOMAIN _tools'["registry"]
                /\ _tools'["registry"][i] = _tools["registry"][i]
        /\ \A i \in DOMAIN _tools'["registry"] \ DOMAIN _tools["registry"] :
                /\ _tools'["registry"][i].callable # None
                /\ _tools'["registry"][i].callable[1] \in ModuleCallables
        /\ (/\ last'.args.reg = "fresh"
            /\ last'.args.package_name = "examples.my_tools"
            /\ "examples.my_tools.text_tools" \notin sys_modules
            /\ ~HasName(_tools["registry"], "to_uppercase")
            /\ ~HasName(_tools["registry"], "count_words"))
           => /\ last'.exc = "none"
              /\ list_names("registry")' =
                    list_names("registry") \o <<"to_uppercase", "count_words">>]_vars

\* autodiscover("examples.my_tools") was called on the fresh instance, which
\* holds a tool of its own: the two tools of text_tools are in the
\* process-wide registry and not in the fresh one
C18_Witness ==
    /\ last.op = "autodiscover"
    /\ last.exc = "none"
    /\ last.args.reg = "fresh"
    /\ last.args.package_name = "examples.my_tools"
    /\ list_names("fresh") = <<"multiply">>
    /\ list_names("registry") = <<"to_uppercase", "count_words">>

\* the client call an adapter call has just recorded
SentKwargs == client_calls[Len(client_calls)].kwargs

\* C19: the tools list that call_with_tools sends is get_json() of the
\* adapter's registry as it is at the moment of the call, so it names every
\* tool registered up to then, also those registered after the adapter was
\* constructed; generate sends no 'tools' argument in any registry state.
\* Neither changes what was sent before.
C19_RegistryReadAtCallTime ==
    [][/\ last'.op = "call_with_tools" =>
            /\ SentKwargs'.tools = get_json(last'.args.adapter.registry)
            /\ [i \in DOMAIN SentKwargs'.tools |-> SentKwargs'.tools[i].name]
                    = NamesOf(_tools[last'.args.adapter.registry])
       /\ last'.op = "generate" =>
            /\ Len(client_calls') = Len(client_calls) + 1
            /\ "tools" \notin DOMAIN SentKwargs'
            /\ SentKwargs'.messages = <<[role |-> "user", content |-> last'.args.prompt]>>
       /\ \A i \in DOMAIN client_calls : client_calls'[i] = client_calls[i]]_vars

\* the same adapter made two calls with tools: the first sent none, the
\* second, after a registration, sent the tool registered in between
C19_Witness ==
    /\ last.op = "call_with_tools"
    /\ Len(client_calls) = 2
    /\ client_calls[1].method = client_calls[2].method
    /\ "tools" \in DOMAIN client_calls[1].kwargs
    /\ client_calls[1].kwargs.tools = <<>>
    /\ Len(client_calls[2].kwargs.tools) = 1
    /\ client_calls[2].kwargs.tools[1].name = "ping"

\* C20: after every step of registrations and reads, list_names(),
\* get_all() and get_json() of a registry have the same length and agree
\* index by index on the name, and the names are pairwise distinct; the
\* length grows by one with each successful registration, whose name goes
\* to the end, and with nothing else, so that it is the number of successful
\* registrations and the order is that of registration.
C20_ReadsAligned ==
    [][\A r \in Registries :
        /\ Len(list_names(r)') = Len(get_all(r)')
        /\ Len(get_json(r)') = Len(get_all(r)')
        /\ \A i \in DOMAIN list_names(r)' :
                /\ list_names(r)'[i] = get_all(r)'[i].name
                /\ list_names(r)'[i] = get_json(r)'[i].name
        /\ \A i, j \in DOMAIN list_names(r)' :
                i # j => list_names(r)'[i] # list_names(r)'[j]
        /\ \A i \in DOMAIN list_names(r) :
                i \in DOMAIN list_names(r)' /\ list_names(r)'[i] = list_names(r)[i]
        /\ Len(list_names(r)') =
                Len(list_names(r))
                + (IF last'.op = "register" /\ last'.exc = "none" /\ last'.args.reg = r
                   THEN 1 ELSE 0)
        /\ (last'.op = "register" /\ last'.exc = "none" /\ last'.args.reg = r)
                => list_names(r)'[Len(list_names(r)')] = LastName']_vars

\* two registrations succeeded and a third one was refused: the three reads
\* have two entries, multiply before bad
C20_Witness ==
    /\ last.op = "register"
    /\ last.exc = "ValueError"
    /\ list_names("fresh") = <<"multiply", "bad">>
    /\ Len(get_all("fresh")) = 2
    /\ get_json("fresh")[2].name = "bad"

\* C21: register(name, description, input_schema) alone never raises and
\* changes no registry, also when the name is registered already or the
\* schema is invalid; it returns the decorator. The validation error and
\* the naming-conflict error are raised when the decorator is applied to a
\* callable, and which of the three outcomes the application has is decided
\* by the schema and by what the registry holds at that moment.
C21_ChecksDeferredToDecorator ==
    [][/\ last'.op = "register_call" =>
            /\ last'.exc = "none"
            /\ last'.ret = Some(last'.args)
            /\ last'.args \in decorators'
            /\ _tools' = _tools
       /\ \A dec \in TwoStepClosures :
            (last'.op = "decorator" /\ last'.args.dec = dec) =>
                LET n == tool_name(dec.name, last'.args.func)
                IN  IF ~ValidInputSchema(raw_schema(dec.input_schema))
                    THEN /\ last'.exc = "ValueError"
                         /\ Contains(last'.msg, "Invalid input_schema for tool '")
                         /\ _tools' = _tools
                    ELSE IF HasName(_tools[dec.reg], n)
                    THEN /\ last'.exc = "ValueError"
                         /\ last'.msg = <<"Tool '", n, "' already registered">>
                         /\ _tools' = _tools
                    ELSE /\ last'.exc = "none"
                         /\ last'.ret = Some(last'.args.func)
                         /\ HasName(_tools'[dec.reg], n)
                         /\ Len(_tools'[dec.reg]) = Len(_tools[dec.reg]) + 1]_vars

\* register was called with the registered name dup and an invalid schema
\* and returned a decorator; the registry holds dup as before
C21_Witness ==
    /\ last.op = "register_call"
    /\ last.exc = "none"
    /\ last.args.name = Some("dup")
    /\ last.args.input_schema = Some(SchemaNoType)
    /\ last.args \in decorators
    /\ list_names("fresh") = <<"dup">>
====
